---- MODULE Spec2Model ----
(***************************************************************************)
(* Model of Mixtape/mslds_solvers/hazan.py: BoundedTraceSDPHazanSolver,    *)
(* GeneralSDPHazanSolver and the module-level objective f / gradf.         *)
(*                                                                         *)
(* Reals are modelled by exact rationals <<n, d>> (d > 0, lowest terms),   *)
(* matrices by sequences of rows.  exp and log are not evaluated: the      *)
(* value of the log-sum-exp surrogate is kept as the list of the terms it  *)
(* exponentiates together with the temperature M.                          *)
(***************************************************************************)
EXTENDS Integers, Sequences, FiniteSets, TLC

\* ---------------------------------------------------------------- bounds
MaxDim  == 3
MaxIter == 3
MaxM    == 2

\* ------------------------------------------------------------- rationals
Abs(n) == IF n < 0 THEN -n ELSE n

RECURSIVE GCD(_, _)
GCD(a, b) == IF b = 0 THEN a ELSE GCD(b, a % b)

Rat(n, d) ==
    LET g == GCD(Abs(n), Abs(d))
        s == IF d < 0 THEN -1 ELSE 1
    IN  <<(s * n) \div g, (s * d) \div g>>

Zero == <<0, 1>>
One  == <<1, 1>>
Int2Rat(n) == <<n, 1>>

RAdd(p, q) == Rat(p[1] * q[2] + q[1] * p[2], p[2] * q[2])
RSub(p, q) == Rat(p[1] * q[2] - q[1] * p[2], p[2] * q[2])
RMul(p, q) == Rat(p[1] * q[1], p[2] * q[2])
RDiv(p, q) == Rat(p[1] * q[2], p[2] * q[1])
RLe(p, q)  == p[1] * q[2] <= q[1] * p[2]
RLt(p, q)  == p[1] * q[2] < q[1] * p[2]
RMin(p, q) == IF RLe(p, q) THEN p ELSE q
\* int(x) of Python: truncation toward zero
RTrunc(p)  == IF p[1] >= 0 THEN p[1] \div p[2] ELSE -((-p[1]) \div p[2])

RECURSIVE RSum(_)
RSum(s) == IF s = <<>> THEN Zero ELSE RAdd(Head(s), RSum(Tail(s)))

\* -------------------------------------------------------------- matrices
Rows(A) == Len(A)
Cols(A) == IF Len(A) = 0 THEN 0 ELSE Len(A[1])
Shape(A) == <<Rows(A), Cols(A)>>

\* np.outer(a, b)
Outer(a, b) == [i \in 1..Len(a) |-> [j \in 1..Len(b) |-> RMul(a[i], b[j])]]
\* np.trace(A)
Trace(A) == RSum([i \in 1..Rows(A) |-> A[i][i]])
\* np.dot(A, B) on two-dimensional arrays
MatMul(A, B) ==
    [i \in 1..Rows(A) |-> [j \in 1..Cols(B) |->
        RSum([l \in 1..Cols(A) |-> RMul(A[i][l], B[l][j])])]]
\* elementwise A * B of two arrays of one shape
MatHadamard(A, B) ==
    [i \in 1..Rows(A) |-> [j \in 1..Cols(A) |-> RMul(A[i][j], B[i][j])]]
\* c * A
MatScale(c, A) == [i \in 1..Rows(A) |-> [j \in 1..Cols(A) |-> RMul(c, A[i][j])]]
MatAdd(A, B) == [i \in 1..Rows(A) |-> [j \in 1..Cols(A) |-> RAdd(A[i][j], B[i][j])]]
MatSub(A, B) == [i \in 1..Rows(A) |-> [j \in 1..Cols(A) |-> RSub(A[i][j], B[i][j])]]
\* A - b with a scalar b: numpy broadcasts b over every entry
MatSubScalar(A, b) == [i \in 1..Rows(A) |-> [j \in 1..Cols(A) |-> RSub(A[i][j], b)]]
\* A.T
Transpose(A) == [j \in 1..Cols(A) |-> [i \in 1..Rows(A) |-> A[i][j]]]

Identity(n) == [i \in 1..n |-> [j \in 1..n |-> IF i = j THEN One ELSE Zero]]
UnitVec(n, i) == [j \in 1..n |-> IF j = i THEN One ELSE Zero]

\* ------------------------------------------------- module-level objective
\* gradf(x), lines 199-204: G = diag(-2 * x[i,i])
gradf(x) ==
    [i \in 1..Rows(x) |-> [j \in 1..Rows(x) |->
        IF i = j THEN RMul(Int2Rat(-2), x[i][i]) ELSE Zero]]

\* Cf = 2., line 207
CfModule == 2

\* ------------------------------------------- closures of _solve (140-171)
\* A call that raised carries the exception's name in "raised".
NoRaise == "none"

\* m = len(As); M = np.max((np.log(m)/eps, 1.)); K = int(1/eps)
\* log(m) is taken to three decimals, which decides the max for every eps
\* used below; M is kept as  IF clamped THEN 1 ELSE log(m)/eps
LogApprox(m) == CASE m = 1 -> Zero
              [] m = 2 -> <<693, 1000>>
              [] m = 3 -> <<1098, 1000>>
              [] OTHER -> <<1386, 1000>>
Temperature(m, e) == [clamped |-> RLe(RDiv(LogApprox(m), e), One) , m |-> m, eps |-> e]
IterBudget(e) == RTrunc(RDiv(One, e))

\* f(X), lines 146-151.  The term exponentiated for constraint i is
\*   np.trace(np.dot(Ai, X) - bi)
\* the value returned is -(1/M) * log(sum_i exp(M * terms[i])).
RECURSIVE fTerms(_, _, _, _, _)
fTerms(A, b, xt, Xm, i) ==
    IF i > Len(A) THEN [raised |-> NoRaise, terms |-> <<>>]
    ELSE IF i > Len(b) THEN [raised |-> "IndexError", terms |-> <<>>]
    ELSE LET Ai   == MatScale(xt, A[i])
             bi   == b[i]
             t    == Trace(MatSubScalar(MatMul(Ai, Xm), bi))
             rest == fTerms(A, b, xt, Xm, i + 1)
         IN  [raised |-> rest.raised,
              terms  |-> IF rest.raised = NoRaise THEN <<t>> \o rest.terms ELSE <<>>]

Closure_f(A, b, xt, Mt, Xm) ==
    LET r == fTerms(A, b, xt, Xm, 1)
    IN  [raised |-> r.raised, M |-> Mt, terms |-> r.terms]

\* gradf(X), lines 160-171.  For dim >= 2 the code evaluates
\* np.trace(Ai, X): X is taken as the "offset" argument of np.trace, which
\* must be an integer, so the call raises TypeError.  For dim = 1 the weight
\* of constraint i is exp(M * (Ai*X - bi)) and the matrix summed is M*Ai.T;
\* the value returned is (-1/M) * sum_i w_i * M * mats[i] / sum_i w_i.
RECURSIVE gradfTerms(_, _, _, _, _, _)
gradfTerms(A, b, xt, d, Xm, i) ==
    IF i > Len(A) THEN [raised |-> NoRaise, terms |-> <<>>, mats |-> <<>>]
    ELSE IF i > Len(b) THEN [raised |-> "IndexError", terms |-> <<>>, mats |-> <<>>]
    ELSE IF d >= 2 THEN [raised |-> "TypeError", terms |-> <<>>, mats |-> <<>>]
    ELSE LET Ai   == MatScale(xt, A[i])
             bi   == b[i]
             t    == MatSubScalar(MatHadamard(Ai, Xm), bi)[1][1]
             rest == gradfTerms(A, b, xt, d, Xm, i + 1)
         IN  IF rest.raised = NoRaise
             THEN [raised |-> NoRaise, terms |-> <<t>> \o rest.terms,
                   mats |-> <<Transpose(Ai)>> \o rest.mats]
             ELSE rest

Closure_gradf(A, b, xt, d, Mt, Xm) ==
    LET r == gradfTerms(A, b, xt, d, Xm, 1)
    IN  [raised |-> r.raised, M |-> Mt, terms |-> r.terms, mats |-> r.mats,
         shape |-> IF r.raised = NoRaise THEN Shape(r.mats[1]) ELSE <<0, 0>>,
         at |-> Xm]

\* ------------------------------------------------------ eigenvector step
\* Index of the first smallest diagonal entry of x: np.argmax(np.real(ws))
\* on the eigenvalues ws = -2 * x[i,i] of the diagonal gradient.
ArgMaxFirst(G) ==
    CHOOSE i \in 1..Rows(G) :
        /\ \A j \in 1..Rows(G) : RLe(G[j][j], G[i][i])
        /\ \A j \in 1..(i - 1) : RLt(G[j][j], G[i][i])

TopIndices(G) == {i \in 1..Rows(G) : \A j \in 1..Rows(G) : RLe(G[j][j], G[i][i])}

\* A unit vector inside the span of e_i and e_j
Mix(n, i, j) == [l \in 1..n |-> IF l = i THEN <<3, 5>> ELSE IF l = j THEN <<4, 5>> ELSE Zero]

\* Lines 78-90: the real part of the unit eigenvector of the largest real
\* eigenvalue of grad.  A 1 x 1 matrix has the eigenvector [1].  The dense
\* solver (dim < 3) returns the identity's columns for a diagonal matrix and
\* argmax takes the first largest eigenvalue; the iterative solver (dim >= 3)
\* returns some unit vector of the top eigenspace.
EigVecs(G, d) ==
    IF d = 1 THEN {<<One>>}
    ELSE IF d < 3 THEN {UnitVec(d, ArgMaxFirst(G))}
    ELSE {UnitVec(d, i) : i \in TopIndices(G)}
         \cup {Mix(d, p[1], p[2]) : p \in {q \in TopIndices(G) \X TopIndices(G) : q[1] < q[2]}}

\* epsk = Cf/(k+1)**2 when dim >= 3 and Cf is given, else the solver's
\* default tolerance 0 (lines 78-83)
EigTol(d, cf, kk) ==
    IF d >= 3 /\ cf.given THEN RDiv(cf.val, Int2Rat((kk + 1) * (kk + 1))) ELSE Zero

\* Mutant of StepSize: the step size indexed one pass late
StepSize_OffByOne(kk) == RMin(One, Rat(2, kk + 2))

\* alphak = min(1., 2./(k+1)), line 91
StepSize(kk) == RMin(One, Rat(2, kk + 1))

\* Mutant of Update: the rank-one term is added without shrinking X
Update_NoShrink(Xm, a, w) == MatAdd(Xm, MatScale(a, Outer(w, w)))

\* X = X + alphak * (np.outer(vk, vk) - X), line 92
Update(Xm, a, w) == MatAdd(Xm, MatScale(a, MatSub(Outer(w, w), Xm)))

\* v = random.rand(dim, 1); X = np.outer(v, v); X /= np.trace(X), lines 73-75
InitX(w) == LET O == Outer(w, w) IN MatScale(RDiv(One, Trace(O)), O)

\* ------------------------------------------------------- call convention
\* def _solve(self, As, bs, eps, dim, X_trace), line 129
SolveParams == <<"self", "As", "bs", "eps", "dim", "X_trace">>
\* self._solve(self, As, bs, eps, dim, X_trace), line 125
Line125Args == <<"self", "As", "bs", "eps", "dim", "X_trace">>
\* g._solve(As, bs, eps, dim, X_trace), line 227
Line227Args == <<"As", "bs", "eps", "dim", "X_trace">>
\* A call through an instance passes the instance first
BoundCall(args) == <<"self">> \o args
\* Positional binding: one argument per parameter or TypeError
Bind(params, args) ==
    IF Len(args) # Len(params)
    THEN [raised |-> "TypeError", to |-> <<>>]
    ELSE [raised |-> NoRaise, to |-> args]
\* The caller's expression bound to parameter name p
ArgOf(b, p) == b.to[CHOOSE i \in 1..Len(SolveParams) : SolveParams[i] = p]

\* ------------------------------------------------------------ the inputs
CfNone == [given |-> FALSE, val |-> Zero]
CfSet  == {CfNone, [given |-> TRUE, val |-> Int2Rat(CfModule)]}

\* random.rand draws from [0, 1); the all-zero draw (which divides by zero
\* on line 75) has probability 2^-53 per entry and is left out
RandVals == {Zero, <<1, 4>>, <<3, 4>>}
RandVecs(d) == {w \in [1..d -> RandVals] : \E i \in 1..d : w[i] # Zero}

Skew(d) == [i \in 1..d |-> [j \in 1..d |->
              IF i = 1 /\ j = 2 THEN One
              ELSE IF i = 1 /\ j = 1 THEN Int2Rat(2) ELSE Zero]]
\* Constraint matrices: 1.5 * I (the script's As, line 222) and a second one,
\* not symmetric when dim >= 2, taken in turn
AChoice(d, c) ==
    IF c % 2 = 0 THEN MatScale(<<3, 2>>, Identity(d))
    ELSE IF d >= 2 THEN Skew(d) ELSE MatScale(<<-1, 1>>, Identity(d))
AsInputs(d) == {[i \in 1..m |-> AChoice(d, i + c)] : m \in 1..MaxM, c \in {0, 1}}
\* bs of the length of As over {0, 1}, and bs one shorter or one longer
BVals == {Zero, One}
BsInputs(m) == [1..m -> BVals] \cup {[i \in 1..n |-> One] : n \in {m - 1, m + 1}}
EpsSet   == {<<1, n>> : n \in 1..MaxIter} \cup {<<2, 1>>}
TraceSet == {One, <<2, 1>>}

NoMat   == <<>>
NoValue == [raised |-> NoRaise, M |-> Temperature(1, One), terms |-> <<>>]
NoGrad  == [raised |-> NoRaise, M |-> Temperature(1, One), terms |-> <<>>,
            mats |-> <<>>, shape |-> <<0, 0>>, at |-> NoMat]

\* ------------------------------------------------------------- the state
VARIABLES
    entry,      \* the function called from outside: "idle", "bounded", "_solve", "solve"
    pc,         \* the line reached
    dim, N_iter, Cf, objective,   \* BoundedTraceSDPHazanSolver.solve's parameters
    As, bs, eps, X_trace,         \* the general solver's parameters / locals
    bound,      \* the caller expressions bound to _solve's parameters
    FAIL,       \* solve's loop flag
    M, K,       \* _solve's locals
    X, k, vk, tol,                \* BoundedTraceSDPHazanSolver.solve's locals
    ks, alphas, \* the loop indices and step sizes of the passes made so far
    grad,       \* the last value of the closure gradf
    unitX,      \* the matrix returned by BoundedTraceSDPHazanSolver.solve
    fX,         \* _solve's local fX
    printed,    \* the f(X) printed on line 182
    outcome     \* "running", "returned" or the exception raised

vars == <<entry, pc, dim, N_iter, Cf, objective, As, bs, eps, X_trace, bound, FAIL,
          M, K, X, k, vk, tol, ks, alphas, grad, unitX, fX, printed, outcome>>

generalVars == <<As, bs, eps, X_trace, bound, FAIL, M, K, fX, printed>>
loopVars    == <<X, k, vk, tol, ks, alphas, grad, unitX>>

Init ==
    /\ entry = "idle" /\ pc = "idle"
    /\ dim = 1 /\ N_iter = 0 /\ Cf = CfNone /\ objective = "module"
    /\ As = <<>> /\ bs = <<>> /\ eps = One /\ X_trace = One
    /\ bound = <<>> /\ FAIL = FALSE
    /\ M = Temperature(1, One) /\ K = 0
    /\ X = NoMat /\ k = 0 /\ vk = <<>> /\ tol = Zero /\ ks = <<>> /\ alphas = <<>>
    /\ grad = NoGrad /\ unitX = NoMat /\ fX = NoValue /\ printed = NoValue
    /\ outcome = "running"

\* b.solve(f, gradf, dim, N_iter, Cf=Cf) with the module's gradf (lines 58, 218)
CallBoundedSolve ==
    /\ pc = "idle"
    /\ \E d \in 1..MaxDim, n \in 0..MaxIter, c \in CfSet :
          /\ dim' = d /\ N_iter' = n /\ Cf' = c
    /\ objective' = "module"
    /\ entry' = "bounded" /\ pc' = "bt_init"
    /\ UNCHANGED <<generalVars, loopVars, outcome>>

\* Entering _solve through a call with the given arguments from a frame whose
\* variables are env: binding (line 129), then lines 172-176 up to the call
\* of self._solver.solve(f, gradf, dim, K)
Enter_solve(args, env) ==
    LET b == Bind(SolveParams, args) IN
    IF b.raised # NoRaise
    THEN /\ outcome' = b.raised /\ pc' = "done"
         /\ bound' = b.to
         /\ UNCHANGED <<dim, N_iter, Cf, objective, As, bs, eps, X_trace, M, K>>
    ELSE /\ bound' = b.to
         /\ As' = env[ArgOf(b, "As")] /\ bs' = env[ArgOf(b, "bs")]
         /\ eps' = env[ArgOf(b, "eps")] /\ dim' = env[ArgOf(b, "dim")]
         /\ X_trace' = env[ArgOf(b, "X_trace")]
         /\ M' = Temperature(Len(As'), eps')
         /\ K' = IterBudget(eps')
         /\ N_iter' = K' /\ Cf' = CfNone /\ objective' = "closure"
         /\ pc' = "bt_init" /\ outcome' = outcome

\* g._solve(As, bs, eps, dim, X_trace), line 227
Call_solve ==
    /\ pc = "idle"
    /\ \E d \in 1..MaxDim, e \in EpsSet, xt \in TraceSet :
       \E A \in AsInputs(d) : \E b \in BsInputs(Len(A)) :
          Enter_solve(BoundCall(Line227Args),
                      [self |-> "g", As |-> A, bs |-> b, eps |-> e, dim |-> d,
                       X_trace |-> xt])
    /\ entry' = "_solve"
    /\ UNCHANGED <<FAIL, fX, printed, loopVars>>

\* g.solve(As, bs, eps, dim): lines 108-122
CallSolve ==
    /\ pc = "idle"
    /\ \E d \in 1..MaxDim, e \in EpsSet :
       \E A \in AsInputs(d) : \E b \in BsInputs(Len(A)) :
          /\ As' = A /\ bs' = b /\ eps' = e /\ dim' = d
    /\ FAIL' = TRUE
    /\ entry' = "solve" /\ pc' = "solve_loop"
    /\ UNCHANGED <<N_iter, Cf, objective, X_trace, bound, M, K, fX, printed,
                   loopVars, outcome>>

\* while FAIL: X_trace = 1., lines 123-124
SolveLoop ==
    /\ pc = "solve_loop" /\ FAIL
    /\ X_trace' = One
    /\ pc' = "solve_call"
    /\ UNCHANGED <<entry, dim, N_iter, Cf, objective, As, bs, eps, bound, FAIL, M, K,
                   fX, printed, loopVars, outcome>>

\* X, fX = self._solve(self, As, bs, eps, dim, X_trace), line 125.  The call
\* raises before _solve's body runs, so lines 126-127 are never reached.
SolveCall ==
    /\ pc = "solve_call"
    /\ Enter_solve(BoundCall(Line125Args),
                   [self |-> "g", As |-> As, bs |-> bs, eps |-> eps, dim |-> dim,
                    X_trace |-> X_trace])
    /\ UNCHANGED <<entry, FAIL, fX, printed, loopVars>>

\* lines 73-75
BTInit ==
    /\ pc = "bt_init"
    /\ \E w \in RandVecs(dim) : X' = InitX(w)
    /\ k' = 0 /\ pc' = "bt_loop"
    /\ UNCHANGED <<entry, dim, N_iter, Cf, objective, generalVars, vk, tol, ks,
                   alphas, grad, unitX, outcome>>

\* One pass of the loop body, lines 76-92, when gradf returns
BTIter ==
    /\ pc = "bt_loop" /\ k < N_iter
    /\ LET g == IF objective = "closure"
                THEN Closure_gradf(As, bs, X_trace, dim, M, X) ELSE NoGrad
           G == IF objective = "closure" THEN NoMat ELSE gradf(X)
       IN  /\ g.raised = NoRaise
           /\ grad' = g
           /\ \E w \in EigVecs(G, dim) :
                 /\ vk' = w
                 /\ X' = Update(X, StepSize(k), w)
    /\ tol' = EigTol(dim, Cf, k)
    /\ ks' = Append(ks, k)
    /\ alphas' = Append(alphas, StepSize(k))
    /\ k' = k + 1
    /\ UNCHANGED <<entry, pc, dim, N_iter, Cf, objective, generalVars, unitX, outcome>>

\* The loop body when gradf raises (line 77): the exception leaves solve
\* and _solve
BTIterRaise ==
    /\ pc = "bt_loop" /\ k < N_iter
    /\ objective = "closure"
    /\ LET g == Closure_gradf(As, bs, X_trace, dim, M, X)
       IN  /\ g.raised # NoRaise
           /\ grad' = g
           /\ outcome' = g.raised
    /\ pc' = "done"
    /\ UNCHANGED <<entry, dim, N_iter, Cf, objective, generalVars, X, k, vk, tol,
                   ks, alphas, unitX>>

\* return X, line 93
BTReturn ==
    /\ pc = "bt_loop" /\ k >= N_iter
    /\ unitX' = X
    /\ pc' = IF entry = "bounded" THEN "done" ELSE "inner_post"
    /\ outcome' = IF entry = "bounded" THEN "returned" ELSE outcome
    /\ UNCHANGED <<entry, dim, N_iter, Cf, objective, generalVars, X, k, vk, tol,
                   ks, alphas, grad>>

\* Mutant of InnerFinish: fX taken after the rescaling
InnerFinish_EvalAfterRescale ==
    /\ pc = "inner_post"
    /\ LET r == Closure_f(As, bs, X_trace, M, X) IN
       IF r.raised # NoRaise
       THEN /\ outcome' = r.raised
            /\ UNCHANGED <<fX, X, printed>>
       ELSE /\ X' = MatScale(X_trace, X)
            /\ fX' = Closure_f(As, bs, X_trace, M, X')
            /\ printed' = fX'
            /\ outcome' = "returned"
    /\ pc' = "done"
    /\ UNCHANGED <<entry, dim, N_iter, Cf, objective, As, bs, eps, X_trace, bound,
                   FAIL, M, K, k, vk, tol, ks, alphas, grad, unitX>>

\* lines 177-183: fX = f(X); X = X_trace * X; the prints; return X, fX
InnerFinish ==
    /\ pc = "inner_post"
    /\ LET r == Closure_f(As, bs, X_trace, M, X) IN
       IF r.raised # NoRaise
       THEN /\ outcome' = r.raised
            /\ UNCHANGED <<fX, X, printed>>
       ELSE /\ fX' = r
            /\ X' = MatScale(X_trace, X)
            /\ printed' = Closure_f(As, bs, X_trace, M, X')
            /\ outcome' = "returned"
    /\ pc' = "done"
    /\ UNCHANGED <<entry, dim, N_iter, Cf, objective, As, bs, eps, X_trace, bound,
                   FAIL, M, K, k, vk, tol, ks, alphas, grad, unitX>>

Next ==
    \/ CallBoundedSolve
    \/ Call_solve
    \/ CallSolve
    \/ SolveLoop
    \/ SolveCall
    \/ BTInit
    \/ BTIter
    \/ BTIterRaise
    \/ BTReturn
    \/ InnerFinish

Spec == Init /\ [][Next]_vars

\* ============================================================ properties

\* Positive semidefiniteness of a rational matrix: symmetric with every
\* principal minor >= 0.  The minors are taken on the integer matrix D * A,
\* D the least common denominator.
LCM(a, b) == (a * b) \div GCD(a, b)

RECURSIVE LCMSeq(_)
LCMSeq(s) == IF s = <<>> THEN 1 ELSE LCM(Head(s), LCMSeq(Tail(s)))

CommonDen(A) == LCMSeq([i \in 1..Rows(A) |-> LCMSeq([j \in 1..Cols(A) |-> A[i][j][2]])])

Scaled(A) ==
    LET D == CommonDen(A)
    IN  [i \in 1..Rows(A) |-> [j \in 1..Cols(A) |-> A[i][j][1] * (D \div A[i][j][2])]]

RECURSIVE SortedSeq(_)
SortedSeq(S) ==
    IF S = {} THEN <<>>
    ELSE LET lo == CHOOSE x \in S : \A y \in S : x <= y
         IN  <<lo>> \o SortedSeq(S \ {lo})

Without(s, j) == [i \in 1..(Len(s) - 1) |-> IF i < j THEN s[i] ELSE s[i + 1]]

RECURSIVE Det(_, _, _)
RECURSIVE DetRow(_, _, _, _)
\* Laplace expansion along the first of the rows rs, over the columns cs
Det(A, rs, cs) ==
    IF rs = <<>> THEN 1 ELSE DetRow(A, rs, cs, 1)
DetRow(A, rs, cs, j) ==
    IF j > Len(cs) THEN 0
    ELSE (IF j % 2 = 1 THEN 1 ELSE -1) * A[rs[1]][cs[j]] * Det(A, Tail(rs), Without(cs, j))
         + DetRow(A, rs, cs, j + 1)

IsSymmetric(A) == \A i, j \in 1..Rows(A) : A[i][j] = A[j][i]

IsPSD(A) ==
    /\ Rows(A) = Cols(A)
    /\ IsSymmetric(A)
    /\ LET I == Scaled(A)
       IN  \A S \in SUBSET (1..Rows(A)) : Det(I, SortedSeq(S), SortedSeq(S)) >= 0

InBoundedSolve == pc \in {"bt_loop", "inner_post"} \/ (entry = "bounded" /\ pc = "done")

\* C1: inside BoundedTraceSDPHazanSolver.solve the iterate X is a dim x dim
\* positive semidefinite matrix of trace 1 after the initialization and
\* after every update, and so is the matrix the call returns.
C1_IterateUnitTracePSD ==
    /\ InBoundedSolve => (Shape(X) = <<dim, dim>> /\ Trace(X) = One /\ IsPSD(X))
    /\ unitX # NoMat => (Shape(unitX) = <<dim, dim>> /\ Trace(unitX) = One /\ IsPSD(unitX))

\* A returned iterate that went through an update with alphak < 1 and has a
\* non-zero off-diagonal entry
C1_Witness ==
    /\ entry = "bounded" /\ pc = "done" /\ outcome = "returned"
    /\ dim >= 3 /\ k >= 3
    /\ unitX = X /\ X[1][2] # Zero

\* C10: the loop body runs N_iter times with k = 0, 1, ..., N_iter-1 in
\* order; the step size of pass k is min(1, 2/(k+1)), lies in (0, 1] and
\* never increases; it is 1 for k = 0 and k = 1, so after each of the first
\* two passes X is vk vk^T alone.
C10_StepSchedule ==
    /\ Len(ks) = k /\ Len(alphas) = k
    /\ \A j \in 1..Len(ks) : ks[j] = j - 1
    /\ \A j \in 1..Len(alphas) :
          /\ alphas[j] = (IF j <= 2 THEN One ELSE Rat(2, j))
          /\ RLt(Zero, alphas[j]) /\ RLe(alphas[j], One)
          /\ j > 1 => RLe(alphas[j], alphas[j - 1])
    /\ InBoundedSolve => k <= N_iter
    /\ unitX # NoMat => k = N_iter
    /\ (pc = "bt_loop" /\ k \in {1, 2}) => X = Outer(vk, vk)

\* The second pass has just run, in a call that goes on to a pass with
\* alphak < 1
C10_Witness ==
    /\ entry = "bounded" /\ pc = "bt_loop"
    /\ dim >= 2 /\ N_iter >= 3 /\ k = 2
    /\ alphas = <<One, One>>
    /\ X = Outer(vk, vk)

\* C5: _solve returns (X, fX) with X = X_trace * (the unit-trace matrix the
\* bounded-trace solver returned), so Tr(X) = X_trace, and fX is f at that
\* unit-trace matrix, taken before the rescaling.
C5_ReturnsRescaledXAndUnscaledValue ==
    (entry = "_solve" /\ pc = "done" /\ outcome = "returned") =>
        /\ Trace(unitX) = One
        /\ X = MatScale(X_trace, unitX)
        /\ Trace(X) = X_trace
        /\ fX = Closure_f(As, bs, X_trace, M, unitX)

\* A return at a trace scale other than 1 after at least one pass, where
\* f differs between the unit-trace and the rescaled matrix
C5_Witness ==
    /\ entry = "_solve" /\ pc = "done" /\ outcome = "returned"
    /\ X_trace = <<2, 1>> /\ k >= 1
    /\ fX.terms # printed.terms

\* C2: solve binds the caller's As, bs, eps, dim to _solve's parameters of
\* the same name and leaves its loop only after an inner solve has returned
\* (with fX > -eps).
C2_SolveLeavesLoopOnlyOnAccept ==
    (entry = "solve" /\ pc = "done" /\ Len(bs) = Len(As)) =>
        /\ bound = SolveParams
        /\ X_trace = One
        /\ outcome = "returned"

\* C4: solve ends either accepting or reporting BinarySearchDidNotConverge.
C4_SolveAcceptsOrReportsNonConvergence ==
    (entry = "solve" /\ pc = "done" /\ Len(bs) = Len(As)) =>
        outcome \in {"returned", "BinarySearchDidNotConverge"}

\* C6: the term f exponentiates for constraint i is
\* Tr(X_trace * A_i * X) - b_i, with b_i subtracted once, for all m
\* constraints.
C6_TermSubtractsBOnce ==
    (entry = "_solve" /\ pc = "done" /\ outcome = "returned" /\ Len(bs) = Len(As)) =>
        /\ Len(fX.terms) = Len(As)
        /\ \A i \in 1..Len(As) :
              fX.terms[i] =
                  RSub(Trace(MatMul(MatScale(X_trace, As[i]), unitX)), bs[i])

\* C7: for every dim >= 1 gradf(X) returns a matrix of X's shape, minus the
\* average of the (X_trace * A_i)^T weighted by the exponentials of
\* M * (Tr(X_trace * A_i * X) - b_i).
C7_GradfReturnsSoftmaxAverage ==
    (objective = "closure" /\ grad # NoGrad /\ Len(bs) = Len(As)) =>
        /\ grad.raised = NoRaise
        /\ grad.shape = Shape(grad.at)
        /\ Len(grad.terms) = Len(As)
        /\ \A i \in 1..Len(As) :
              /\ grad.terms[i] =
                    RSub(Trace(MatMul(MatScale(X_trace, As[i]), grad.at)), bs[i])
              /\ grad.mats[i] = Transpose(MatScale(X_trace, As[i]))

\* C8: a call of solve or _solve with len(As) # len(bs) ends in
\* DimensionMismatch before any pass of the inner optimization and never
\* returns a result.
C8_LengthMismatchRaisesDimensionMismatch ==
    (entry \in {"solve", "_solve"} /\ Len(As) # Len(bs)) =>
        /\ k = 0
        /\ outcome # "returned"
        /\ pc = "done" => outcome = "DimensionMismatch"

\* C9: _solve calls the bounded-trace solver with N_iter = K = floor(1/eps)
\* and no Cf, and K >= 1, so a returned matrix went through at least one
\* update.
C9_IterationBudgetAtLeastOne ==
    (entry = "_solve" /\ pc # "idle" /\ RLt(Zero, eps) /\ Len(bs) = Len(As)) =>
        /\ K = RTrunc(RDiv(One, eps))
        /\ N_iter = K /\ ~Cf.given
        /\ K >= 1
        /\ outcome = "returned" => k >= 1

====
